---- MODULE Spec2Model ----
(***************************************************************************)
(* Model of DataStore (include/DataStore.h): an LRU cache of string        *)
(* key/value pairs in front of a sqlite table "data".  Every public call   *)
(* (put, get, isInCache, size, the constructor and the destructor) is one  *)
(* action.  std::list nodes carry an identity so that the iterators kept   *)
(* in m_cache_map are modelled as references to nodes, not as keys.        *)
(***************************************************************************)
EXTENDS Integers, Sequences, FiniteSets, TLC

\* Bounds of the model.
MaxKeys == 3
MaxCapacity == 2
MaxCalls == 4

\* std::string keys and values.  The empty string is a value like any other;
\* it is also what get returns when it has nothing to return.
Keys == {ToString(i) : i \in 1..MaxKeys}
Values == {"", "one"}
Capacities == 0..MaxCapacity

VARIABLES
    m_cache_list,        \* std::list<key_val_pair>: front = most recently used
    m_cache_map,         \* key -> list iterator (node identity)
    m_modification_map,  \* key -> bool
    m_max_cache_size,
    db,                  \* rows of the sqlite table: key -> value
    alive,               \* the object is constructed and not yet destroyed
    lastOp,              \* the last completed call, its result and its store writes
    lastPut,             \* key -> value of the latest put of this object
    accessOrder,         \* keys by latest put/get call of this object, latest first
    origin,              \* resident key -> how its current residency came about
    ioFailed,            \* a store read or write of this object has failed
    calls,               \* number of calls made so far
    track                \* the bookkeeping this behaviour keeps (fixed at the start)

vars == <<m_cache_list, m_cache_map, m_modification_map, m_max_cache_size, db,
          alive, lastOp, lastPut, accessOrder, origin, ioFailed, calls, track>>

cacheVars == <<m_cache_list, m_cache_map, m_modification_map, m_max_cache_size>>

----------------------------------------------------------------------------
\* Containers.

EmptyMap == [k \in {} |-> TRUE]

MapSet(f, k, v) == [x \in (DOMAIN f) \cup {k} |-> IF x = k THEN v ELSE f[x]]

MapEraseNone(f, k) == f

MapErase(f, k) == [x \in (DOMAIN f) \ {k} |-> f[x]]

\* A fresh list node: any identity not in use; the smallest one is taken.
NewNode(list) ==
    CHOOSE n \in 1..(Len(list) + 1) :
        /\ \A i \in 1..Len(list) : list[i].node # n
        /\ \A m \in 1..(n - 1) : \E i \in 1..Len(list) : list[i].node = m

push_back(list, key, value) ==
    list \o <<[node |-> NewNode(list), key |-> key, value |-> value]>>

push_front(list, key, value) ==
    <<[node |-> NewNode(list), key |-> key, value |-> value]>> \o list

\* std::list::erase(iterator)
eraseNone(list, node) == list

erase(list, node) == SelectSeq(list, LAMBDA e : e.node # node)

pop_back(list) == SubSeq(list, 1, Len(list) - 1)

backIsFront(list) == list[1]

back(list) == list[Len(list)]

\* m_cache_list.splice(m_cache_list.begin(), m_cache_list, it)
spliceNoMove(list, node) == list

spliceToBack(list, node) ==
    SelectSeq(list, LAMBDA e : e.node # node) \o SelectSeq(list, LAMBDA e : e.node = node)

splice(list, node) ==
    SelectSeq(list, LAMBDA e : e.node = node) \o SelectSeq(list, LAMBDA e : e.node # node)

\* Dereferencing a list iterator: it->second
Deref(list, node) == (CHOOSE i \in 1..Len(list) : list[i].node = node)

ListKeys(list) == {list[i].key : i \in 1..Len(list)}

----------------------------------------------------------------------------
\* Private helpers of DataStore.

isModifiedDefaultTrue(mod, key) == IF key \in DOMAIN mod THEN mod[key] ELSE TRUE

isModified(mod, key) == IF key \in DOMAIN mod THEN mod[key] ELSE FALSE

\* INSERT OR REPLACE INTO data: the row is written when sqlite3_exec succeeds.
writeToDB(table, key, value, ok) == IF ok THEN MapSet(table, key, value) ELSE table

\* SELECT value FROM data WHERE key = ... LIMIT 1: a failure of prepare or step
\* returns false; a statement that steps to SQLITE_DONE returns true, also when
\* it produced no row, and value then keeps its initial empty string.
readFromDBIgnoreError(table, key, ok) ==
    [success |-> TRUE, value |-> IF ok /\ key \in DOMAIN table THEN table[key] ELSE ""]

readFromDB(table, key, ok) ==
    IF ~ok THEN [success |-> FALSE, value |-> ""]
    ELSE [success |-> TRUE, value |-> IF key \in DOMAIN table THEN table[key] ELSE ""]

\* put: the test that decides an eviction.
exceedsOffByOne(map, cap) == Cardinality(DOMAIN map) > cap + 1

exceedsOrEqual(map, cap) == Cardinality(DOMAIN map) >= cap

exceeds(map, cap) == Cardinality(DOMAIN map) > cap

\* put(key, value) on the current state.  saved is the sequence of writeToDB
\* calls; resident tells whether the written key was still in the list.
put(key, value, saveOk) ==
    LET mapItr == IF key \in DOMAIN m_cache_map THEN m_cache_map[key] ELSE 0
        l1 == push_front(m_cache_list, key, value)
        l2 == IF mapItr # 0 THEN erase(l1, mapItr) ELSE l1
        m1 == MapSet(m_cache_map, key, Head(l2).node)
        d1 == MapSet(m_modification_map, key, TRUE)
    IN  IF exceeds(m1, m_max_cache_size)
        THEN LET end_itr == back(l2)
                 m2 == MapErase(m1, end_itr.key)
                 d2 == MapErase(d1, end_itr.key)
                 lastElem == back(l2)
                 l3 == pop_back(l2)
                 write == isModified(d2, lastElem.key)
             IN  [list |-> l3, map |-> m2, mod |-> d2,
                  table |-> IF write
                            THEN writeToDB(db, lastElem.key, lastElem.value, saveOk)
                            ELSE db,
                  saved |-> IF write
                            THEN <<[key |-> lastElem.key, value |-> lastElem.value,
                                    resident |-> FALSE]>>
                            ELSE << >>,
                  failed |-> write /\ ~saveOk]
        ELSE [list |-> l2, map |-> m1, mod |-> d1, table |-> db,
              saved |-> << >>, failed |-> FALSE]

\* get(key) on the current state.
get(key, loadOk, saveOk) ==
    IF key \in DOMAIN m_cache_map
    THEN LET l1 == splice(m_cache_list, m_cache_map[key])
         IN  [list |-> l1, map |-> m_cache_map, mod |-> m_modification_map,
              table |-> db, saved |-> << >>, failed |-> FALSE, path |-> "hit",
              ret |-> l1[Deref(l1, m_cache_map[key])].value]
    ELSE LET r == readFromDB(db, key, loadOk)
         IN  IF r.success
             THEN LET p == put(key, r.value, saveOk)
                      d == MapSet(p.mod, key, FALSE)
                  IN  [list |-> p.list, map |-> p.map, mod |-> d,
                       table |-> p.table, saved |-> p.saved, failed |-> p.failed,
                       path |-> "reload",
                       ret |-> IF key \in DOMAIN p.map
                               THEN p.list[Deref(p.list, p.map[key])].value
                               ELSE ""]
             ELSE [list |-> m_cache_list, map |-> m_cache_map,
                   mod |-> m_modification_map, table |-> db, saved |-> << >>,
                   failed |-> TRUE, path |-> "fail", ret |-> ""]

isInCacheByDirty(key) == key \in DOMAIN m_modification_map

isInCache(key) == key \in DOMAIN m_cache_map

size == Cardinality(DOMAIN m_cache_map)

\* purgeToStorage: the rows of the one INSERT OR REPLACE statement.
purgeAll(list, mod) == list

purgeToStorage(list, mod) == SelectSeq(list, LAMBDA e : isModified(mod, e.key))

----------------------------------------------------------------------------
\* Bookkeeping about the calls made, kept beside the program state.

MoveFront(seq, key) ==
    IF track # "order" THEN seq ELSE <<key>> \o SelectSeq(seq, LAMBDA k : k # key)

Resident(key) == key \in ListKeys(m_cache_list)

\* How each key resident after a call came to be resident: "loaded" by a get
\* miss, "put" once, or "reput" (put again while resident).
OriginAfter(newList, op, key) ==
    IF track # "origin" THEN origin ELSE
    [k \in ListKeys(newList) |->
        IF k # key THEN origin[k]
        ELSE IF op = "get" THEN (IF k \in DOMAIN origin THEN origin[k] ELSE "loaded")
        ELSE IF k \in DOMAIN origin /\ origin[k] # "loaded" THEN "reput" ELSE "put"]

\* The keys that leave the cache in a call that ends with the list newList:
\* resident before (or inserted by the call) and not resident after.  A key is
\* dirty when it leaves if its flag was set before the call, or if this very
\* call is the put that wrote it.
Dropped(newList, op, key, inserted) ==
    {[key |-> k,
      dirty |-> IF Resident(k) THEN isModified(m_modification_map, k) ELSE op = "put",
      origin |-> IF k \in DOMAIN origin THEN origin[k] ELSE "none"] :
        k \in (ListKeys(m_cache_list) \cup (IF inserted THEN {key} ELSE {}))
                \ ListKeys(newList)}

\* Every call of put, get and the destructor counts against the bound of the
\* model; isInCache and size may be asked at any time, and a destroyed object
\* may always be followed by a new one on the same database.
Called == calls < MaxCalls /\ calls' = calls + 1

Call(op, key, value, ret, path, dropped, saved, failed) ==
    [op |-> op, key |-> key, value |-> value, ret |-> ret, path |-> path,
     dropped |-> dropped, saved |-> saved, failed |-> failed]

----------------------------------------------------------------------------
\* lastPut and ioFailed are kept when track = "puts", accessOrder when
\* track = "order", origin when track = "origin"; otherwise they stay as they
\* start.  The program state does not depend on them.
InitTracking(t) ==
    /\ track = t
    /\ m_cache_list = << >>
    /\ m_cache_map = EmptyMap
    /\ m_modification_map = EmptyMap
    /\ m_max_cache_size \in Capacities
    /\ db = EmptyMap
    /\ alive = TRUE
    /\ lastOp = Call("construct", "", "", "", "", {}, << >>, FALSE)
    /\ lastPut = EmptyMap
    /\ accessOrder = << >>
    /\ origin = EmptyMap
    /\ ioFailed = FALSE
    /\ calls = 0

Init == InitTracking("none")

Put(key, value, saveOk) ==
    /\ alive
    /\ Called
    /\ ~saveOk => put(key, value, saveOk).saved # << >>
    /\ LET p == put(key, value, saveOk)
       IN  /\ m_cache_list' = p.list
           /\ m_cache_map' = p.map
           /\ m_modification_map' = p.mod
           /\ db' = p.table
           /\ lastOp' = Call("put", key, value, "",
                           IF Resident(key) THEN "update" ELSE "insert",
                           Dropped(p.list, "put", key, TRUE), p.saved, p.failed)
           /\ origin' = OriginAfter(p.list, "put", key)
           /\ ioFailed' = (ioFailed \/ (track = "puts" /\ p.failed))
    /\ lastPut' = IF track = "puts" THEN MapSet(lastPut, key, value) ELSE lastPut
    /\ accessOrder' = MoveFront(accessOrder, key)
    /\ UNCHANGED <<m_max_cache_size, alive, track>>

Get(key, loadOk, saveOk) ==
    /\ alive
    /\ Called
    /\ ~loadOk => ~isInCache(key)
    /\ ~saveOk => get(key, loadOk, saveOk).saved # << >>
    /\ LET g == get(key, loadOk, saveOk)
       IN  /\ m_cache_list' = g.list
           /\ m_cache_map' = g.map
           /\ m_modification_map' = g.mod
           /\ db' = g.table
           /\ lastOp' = Call("get", key, "", g.ret, g.path,
                           Dropped(g.list, "get", key, g.path = "reload"), g.saved,
                           ~loadOk \/ g.failed)
           /\ origin' = OriginAfter(g.list, "get", key)
           /\ ioFailed' = (ioFailed \/ (track = "puts" /\ g.failed))
    /\ accessOrder' = MoveFront(accessOrder, key)
    /\ UNCHANGED <<m_max_cache_size, alive, lastPut, track>>

IsInCache(key) ==
    /\ alive
    /\ lastOp' = Call("isInCache", key, "", isInCache(key), "", {}, << >>, FALSE)
    /\ UNCHANGED <<cacheVars, db, alive, lastPut, accessOrder, origin, ioFailed, calls,
                   track>>

Size ==
    /\ alive
    /\ lastOp' = Call("size", "", "", size, "", {}, << >>, FALSE)
    /\ UNCHANGED <<cacheVars, db, alive, lastPut, accessOrder, origin, ioFailed, calls,
                   track>>

\* ~DataStore: purge when the list is not empty, then the members are released.
\* The batch is one statement: it is written as a whole or not at all.
Destroy(saveOk) ==
    /\ alive
    /\ Called
    /\ ~saveOk => (m_cache_list # << >>
                    /\ purgeToStorage(m_cache_list, m_modification_map) # << >>)
    /\ LET batch == IF m_cache_list # << >>
                    THEN purgeToStorage(m_cache_list, m_modification_map)
                    ELSE << >>
           rows == [i \in 1..Len(batch) |->
                      [key |-> batch[i].key, value |-> batch[i].value, resident |-> TRUE]]
       IN  /\ db' = IF saveOk
                    THEN [k \in (DOMAIN db) \cup ListKeys(batch) |->
                            IF k \in ListKeys(batch)
                            THEN batch[CHOOSE i \in 1..Len(batch) : batch[i].key = k].value
                            ELSE db[k]]
                    ELSE db
           /\ lastOp' = Call("destroy", "", "", "", "", Dropped(<< >>, "destroy", "", FALSE),
                           rows, batch # << >> /\ ~saveOk)
           /\ ioFailed' = (ioFailed \/ (track = "puts" /\ batch # << >> /\ ~saveOk))
    /\ m_cache_list' = << >>
    /\ m_cache_map' = EmptyMap
    /\ m_modification_map' = EmptyMap
    /\ origin' = EmptyMap
    /\ alive' = FALSE
    /\ UNCHANGED <<m_max_cache_size, lastPut, accessOrder, track>>

\* DataStore(max_cache_size, name) on the database file left by the last object.
Construct(max_cache_size) ==
    /\ ~alive
    /\ calls' = calls
    /\ m_max_cache_size' = max_cache_size
    /\ alive' = TRUE
    /\ lastOp' = Call("construct", "", "", "", "", {}, << >>, FALSE)
    /\ lastPut' = EmptyMap
    /\ accessOrder' = << >>
    /\ ioFailed' = FALSE
    /\ UNCHANGED <<m_cache_list, m_cache_map, m_modification_map, db, origin, track>>

Next ==
    \/ \E key \in Keys, value \in Values, saveOk \in BOOLEAN : Put(key, value, saveOk)
    \/ \E key \in Keys, loadOk \in BOOLEAN, saveOk \in BOOLEAN : Get(key, loadOk, saveOk)
    \/ \E key \in Keys : IsInCache(key)
    \/ Size
    \/ \E saveOk \in BOOLEAN : Destroy(saveOk)
    \/ \E max_cache_size \in Capacities : Construct(max_cache_size)

Spec == Init /\ [][Next]_vars

\* The same program, with the order of the calls kept.
SpecOrder == InitTracking("order") /\ [][Next]_vars

\* The same program, with the origin of every resident key kept.
SpecOrigin == InitTracking("origin") /\ [][Next]_vars

\* The same program, with the latest put of every key kept.
SpecPuts == InitTracking("puts") /\ [][Next]_vars

----------------------------------------------------------------------------
\* Vocabulary of the properties.  A step is a call; lastOp' names it.

IsAccess == lastOp'.op \in {"put", "get"}

\* The call put an entry for its key into the list (put, or a get that reloads).
Inserts == \/ lastOp'.op = "put"
           \/ lastOp'.op = "get" /\ lastOp'.path = "reload"

\* The keys evicted by the step.
EvictedKeys ==
    (ListKeys(m_cache_list) \cup (IF Inserts THEN {lastOp'.key} ELSE {}))
        \ ListKeys(m_cache_list')

\* Dirty flag and cached value of key k when the step evicts it.
DirtyAtEviction(k) ==
    IF Resident(k) THEN isModified(m_modification_map, k) ELSE lastOp'.op = "put"

ValueAtEviction(k) ==
    IF Resident(k)
    THEN m_cache_list[CHOOSE i \in 1..Len(m_cache_list) : m_cache_list[i].key = k].value
    ELSE lastOp'.value

WritesFor(k) == SelectSeq(lastOp'.saved, LAMBDA w : w.key = k)

\* Position of a key in the order of latest calls (1 = latest call).
AccessRank(k) == CHOOSE i \in 1..Len(accessOrder') : accessOrder'[i] = k

----------------------------------------------------------------------------
\* C1: when no store call has failed, get(k) returns the value of the latest
\* put(k, v), whether k is still resident or was evicted in the meantime.
C1_GetReturnsLatestPut ==
    (lastOp.op = "get" /\ ~ioFailed /\ lastOp.key \in DOMAIN lastPut)
        => lastOp.ret = lastPut[lastOp.key]

\* C2: after every call the number of resident entries is at most the capacity.
C2_BoundedResidency ==
    /\ Cardinality(DOMAIN m_cache_map) <= m_max_cache_size
    /\ Len(m_cache_list) <= m_max_cache_size

\* C2 witness: a get miss reloaded a key into a full cache and evicted another.
C2_Witness ==
    /\ lastOp.op = "get" /\ lastOp.path = "reload"
    /\ lastOp.dropped # {}
    /\ m_max_cache_size = 2
    /\ size = m_max_cache_size

\* C3: a key evicted by put or get while dirty is saved exactly once, with its
\* cached value, and the save is made while the key is still resident.
C3_WriteBackOnEviction ==
    [][IsAccess =>
        \A k \in EvictedKeys :
            DirtyAtEviction(k) =>
                /\ Len(WritesFor(k)) = 1
                /\ WritesFor(k)[1].value = ValueAtEviction(k)
                /\ WritesFor(k)[1].resident]_vars

\* C4 as stated: after put(k, v) the key is resident, at the front and dirty;
\* after a get(k) that hits, k is at the front.
C4_PutFrontDirty ==
    /\ lastOp.op = "put" =>
          /\ m_cache_list # << >>
          /\ Head(m_cache_list).key = lastOp.key
          /\ lastOp.key \in DOMAIN m_cache_map
          /\ isModified(m_modification_map, lastOp.key)
    /\ (lastOp.op = "get" /\ lastOp.path = "hit") =>
          /\ m_cache_list # << >>
          /\ Head(m_cache_list).key = lastOp.key

\* C4 amended: the same, for a cache of capacity at least 1.
C4_PutFrontDirtyPositiveCapacity == m_max_cache_size >= 1 => C4_PutFrontDirty

\* C4 witness: a put of a key that was resident, in a cache holding two entries.
C4_Witness ==
    /\ lastOp.op = "put" /\ lastOp.path = "update"
    /\ Len(m_cache_list) = 2
    /\ m_max_cache_size >= 1

\* C5: an insertion that makes the resident count exceed the capacity evicts
\* exactly one entry, the resident key (the inserted one included) whose latest
\* put or get is the oldest.
C5_LruVictim ==
    [][(IsAccess /\ Inserts /\ ~Resident(lastOp'.key)
          /\ Cardinality(ListKeys(m_cache_list)) + 1 > m_max_cache_size) =>
        \E v \in ListKeys(m_cache_list) \cup {lastOp'.key} :
            /\ EvictedKeys = {v}
            /\ (DOMAIN m_cache_map \cup {lastOp'.key}) \ DOMAIN m_cache_map' = {v}
            /\ Len(m_cache_list') = Len(m_cache_list)
            /\ \A k \in ListKeys(m_cache_list) \cup {lastOp'.key} :
                   AccessRank(k) <= AccessRank(v)]_vars

\* C5 witness: an insertion into a full cache of two entries evicted one of them.
C5_Witness ==
    /\ lastOp.op \in {"put", "get"}
    /\ lastOp.path \in {"insert", "reload"}
    /\ m_max_cache_size = 2
    /\ Cardinality(lastOp.dropped) = 1
    /\ Len(m_cache_list) = 2

\* C6: a key that became resident by a get miss and is evicted with no put of
\* it in between is not saved by that eviction.
C6_NoRedundantWrite ==
    [][IsAccess =>
        \A k \in EvictedKeys :
            (\/ Resident(k) /\ origin[k] = "loaded"
             \/ ~Resident(k) /\ lastOp'.op = "get") => WritesFor(k) = << >>]_vars

\* C6 witness: the last call evicted a key that a get miss had loaded from a
\* row of the table, and the row is as it was.
C6_Witness ==
    /\ lastOp.op \in {"put", "get"}
    /\ lastOp.saved = << >>
    /\ \E d \in lastOp.dropped :
           d.origin = "loaded" /\ ~d.dirty /\ d.key \in DOMAIN db /\ db[d.key] = "one"

\* C7: a key put twice while resident and then evicted is written back exactly
\* once, with the value of the later put.
C7_UpdateCoalescing ==
    [][IsAccess =>
        \A k \in EvictedKeys :
            (Resident(k) /\ origin[k] = "reput") =>
                /\ Len(WritesFor(k)) = 1
                /\ WritesFor(k)[1].value = ValueAtEviction(k)]_vars

\* C8: a get of a key that is neither resident nor in the store returns the
\* empty string and leaves list, index and dirty flags as they were.
C8_MissOnAbsentKeyInsertsNothing ==
    [][(lastOp'.op = "get" /\ ~Resident(lastOp'.key) /\ lastOp'.key \notin DOMAIN db) =>
        /\ lastOp'.ret = ""
        /\ UNCHANGED <<m_cache_list, m_cache_map, m_modification_map>>]_vars

\* C9: the destructor writes every dirty resident entry with its current value,
\* skips every clean one, and writes nothing when no resident entry is dirty.
C9_TeardownFlush ==
    [][lastOp'.op = "destroy" =>
        LET dirty == {i \in 1..Len(m_cache_list) :
                         isModified(m_modification_map, m_cache_list[i].key)}
        IN  /\ {<<w.key, w.value>> : w \in {lastOp'.saved[j] : j \in 1..Len(lastOp'.saved)}}
                 = {<<m_cache_list[i].key, m_cache_list[i].value>> : i \in dirty}
            /\ Len(lastOp'.saved) = Cardinality(dirty)
            /\ ~lastOp'.failed =>
                  \A k \in Keys :
                      IF \E i \in dirty : m_cache_list[i].key = k
                      THEN k \in DOMAIN db' /\ db'[k] = ValueAtEviction(k)
                      ELSE /\ (k \in DOMAIN db') = (k \in DOMAIN db)
                           /\ k \in DOMAIN db => db'[k] = db[k]
            /\ dirty = {} => (lastOp'.saved = << >> /\ db' = db)]_vars

\* C9 witness: a cache holding a dirty and a clean entry has been destroyed.
C9_Witness ==
    /\ lastOp.op = "destroy"
    /\ \E d \in lastOp.dropped : d.dirty
    /\ \E d \in lastOp.dropped : ~d.dirty
    /\ Len(lastOp.saved) = 1

\* C10: isInCache(k) is true exactly when k is resident, whatever the store
\* holds, and changes neither the cache nor the store.
C10_IsInCachePure ==
    [][lastOp'.op = "isInCache" =>
        /\ lastOp'.ret = Resident(lastOp'.key)
        /\ UNCHANGED <<m_cache_list, m_cache_map, m_modification_map,
                       m_max_cache_size, db>>]_vars

\* C10 witness: isInCache answered false for a key that the store holds.
C10_Witness ==
    /\ lastOp.op = "isInCache"
    /\ lastOp.ret = FALSE
    /\ lastOp.key \in DOMAIN db
    /\ m_cache_list # << >>

\* C11: put(k, v2) of a resident key replaces its value: size and the set of
\* resident keys stay the same, nothing is evicted, and get(k) then returns v2.
C11_PutUpdateReplaces ==
    [][\A k \in Keys, v2 \in Values :
        (lastOp'.op = "put" /\ lastOp'.key = k /\ lastOp'.value = v2 /\ Resident(k)) =>
            /\ size' = size
            /\ Len(m_cache_list') = Len(m_cache_list)
            /\ ListKeys(m_cache_list') = ListKeys(m_cache_list)
            /\ DOMAIN m_cache_map' = DOMAIN m_cache_map
            /\ EvictedKeys = {}
            /\ isInCache(k)'
            /\ (get(k, TRUE, TRUE).path)' = "hit"
            /\ (get(k, TRUE, TRUE).ret)' = v2]_vars

\* C11 witness: a resident key of a cache of two entries was put again with
\* another value than it had.
C11_Witness ==
    /\ lastOp.op = "put" /\ lastOp.path = "update"
    /\ lastOp.value = "one"
    /\ lastOp.dropped = {}
    /\ size = 2
    /\ get(lastOp.key, TRUE, TRUE).ret = "one"

\* C12: put(k, v) of a key that is not resident, into a cache with room left,
\* makes size one larger and k resident, keeps every resident key resident, and
\* neither reads nor writes the store.
C12_PutInsertWithRoom ==
    [][\A k \in Keys :
        (lastOp'.op = "put" /\ lastOp'.key = k /\ ~Resident(k)
           /\ size < m_max_cache_size) =>
            /\ size' = size + 1
            /\ isInCache(k)'
            /\ ListKeys(m_cache_list') = ListKeys(m_cache_list) \cup {k}
            /\ DOMAIN m_cache_map' = DOMAIN m_cache_map \cup {k}
            /\ lastOp'.saved = << >>
            /\ ~lastOp'.failed
            /\ db' = db]_vars

\* C12 witness: a put of a new key filled the second place of a cache of two,
\* while the store holds a row.
C12_Witness ==
    /\ lastOp.op = "put" /\ lastOp.path = "insert"
    /\ lastOp.dropped = {}
    /\ m_max_cache_size = 2
    /\ size = 2
    /\ db # EmptyMap

\* C13: with capacity 0 every put(x, y) evicts the entry at once and writes y
\* back: afterwards the cache is empty, the store holds y for x, and get(x)
\* returns y.
C13_ZeroCapacityWritesBack ==
    [][\A x \in Keys, y \in Values :
        (lastOp'.op = "put" /\ lastOp'.key = x /\ lastOp'.value = y
           /\ m_max_cache_size = 0 /\ ~lastOp'.failed) =>
            /\ size' = 0
            /\ ~isInCache(x)'
            /\ x \in DOMAIN db' /\ db'[x] = y
            /\ (get(x, TRUE, TRUE).ret)' = y]_vars

\* C14: a get miss that loads its key takes the eviction step of put: from a
\* full cache the entry at the back of the list leaves list and index (the
\* loaded key itself when the capacity is 0), and size <= capacity afterwards.
C14_ReloadEvicts ==
    [][\A k \in Keys :
        (lastOp'.op = "get" /\ lastOp'.key = k /\ lastOp'.path = "reload"
           /\ size = m_max_cache_size) =>
            LET victim == IF m_cache_list = << >> THEN k
                          ELSE m_cache_list[Len(m_cache_list)].key
            IN  /\ EvictedKeys = {victim}
                /\ (DOMAIN m_cache_map \cup {k}) \ DOMAIN m_cache_map' = {victim}
                /\ victim \notin DOMAIN m_cache_map'
                /\ size' <= m_max_cache_size
                /\ m_max_cache_size >= 1 => isInCache(k)']_vars

\* C14 witness: capacity 1, one key resident, and the get of another key has
\* taken its place.
C14_Witness ==
    /\ lastOp.op = "get" /\ lastOp.path = "reload"
    /\ m_max_cache_size = 1
    /\ size = 1
    /\ isInCache(lastOp.key)
    /\ \E d \in lastOp.dropped : d.key # lastOp.key /\ ~isInCache(d.key)

\* C15: a get(k) that hits returns k's cached value and changes nothing but the
\* place of k in the list, which becomes the front.
C15_GetHitOnlyMovesToFront ==
    [][\A k \in Keys :
        (lastOp'.op = "get" /\ lastOp'.key = k /\ Resident(k)) =>
            /\ lastOp'.ret = ValueAtEviction(k)
            /\ m_cache_list' =
                  SelectSeq(m_cache_list, LAMBDA e : e.key = k)
                     \o SelectSeq(m_cache_list, LAMBDA e : e.key # k)
            /\ UNCHANGED <<m_cache_map, m_modification_map, m_max_cache_size, db>>
            /\ lastOp'.saved = << >>]_vars

\* C15 witness: a get hit on a dirty key brought it to the front of two.
C15_Witness ==
    /\ lastOp.op = "get" /\ lastOp.path = "hit"
    /\ lastOp.ret = "one"
    /\ Len(m_cache_list) = 2
    /\ isModified(m_modification_map, lastOp.key)
    /\ m_cache_list[1].node > m_cache_list[2].node

\* C16: index and list hold the same keys, every key is in the list once, and
\* the index entry of a key refers to the list node that holds that key.
C16_IndexListBijection ==
    /\ DOMAIN m_cache_map = ListKeys(m_cache_list)
    /\ \A i, j \in 1..Len(m_cache_list) :
          (i # j) => /\ m_cache_list[i].key # m_cache_list[j].key
                     /\ m_cache_list[i].node # m_cache_list[j].node
    /\ \A i \in 1..Len(m_cache_list) :
          m_cache_map[m_cache_list[i].key] = m_cache_list[i].node

\* C16 witness: two entries are resident after an eviction, and the nodes are not
\* in the order of their identities.
C16_Witness ==
    /\ lastOp.op \in {"put", "get"}
    /\ lastOp.dropped # {}
    /\ Len(m_cache_list) = 2
    /\ m_cache_list[1].node > m_cache_list[2].node

\* C17: whatever the store answers, a key evicted by put or get is afterwards
\* not resident, has no dirty flag left, size <= capacity, and list, index and
\* dirty flags hold the same keys.
C17_EvictionLeavesNoTrace ==
    [][IsAccess =>
        /\ \A k \in EvictedKeys :
              /\ k \notin ListKeys(m_cache_list')
              /\ k \notin DOMAIN m_cache_map'
              /\ k \notin DOMAIN m_modification_map'
        /\ size' <= m_max_cache_size
        /\ DOMAIN m_cache_map' = ListKeys(m_cache_list')
        /\ DOMAIN m_modification_map' = ListKeys(m_cache_list')]_vars

\* C18: a get miss whose load fails returns the empty string and leaves the
\* cache and the store as they were.
C18_LoadFailureChangesNothing ==
    [][(lastOp'.op = "get" /\ lastOp'.failed /\ lastOp'.saved = << >>) =>
        /\ lastOp'.ret = ""
        /\ UNCHANGED <<m_cache_list, m_cache_map, m_modification_map,
                       m_max_cache_size, db>>]_vars

\* C18 witness: the load of a key failed although the store holds a value for
\* it, with another key resident.
C18_Witness ==
    /\ lastOp.op = "get" /\ lastOp.failed /\ lastOp.path = "fail"
    /\ lastOp.ret = ""
    /\ lastOp.key \in DOMAIN db /\ db[lastOp.key] = "one"
    /\ m_cache_list # << >>

\* C19: the dirty flags are kept for resident keys only.
C19_DirtyFlagsOnlyForResident ==
    DOMAIN m_modification_map \subseteq ListKeys(m_cache_list)

\* C20: a resident entry that is clean holds the value the store holds for its
\* key; in particular the store has a row for it.
C20_CleanEntriesMatchStore ==
    \A i \in 1..Len(m_cache_list) :
        ~isModified(m_modification_map, m_cache_list[i].key) =>
            /\ m_cache_list[i].key \in DOMAIN db
            /\ db[m_cache_list[i].key] = m_cache_list[i].value

====
